---- MODULE Spec2Model ----
(***************************************************************************)
(* Xenocrypt puzzle: the cipher engine and the solver's guess mapping of   *)
(* the two variants of the repository,                                     *)
(*   - the React component XenocryptPractice (src/unnamed/part_000), and   *)
(*   - the DOM script src/xenocrypt.js.                                    *)
(* Characters are modelled as strings, texts as sequences of characters,   *)
(* JavaScript objects used as maps as functions on their set of keys.      *)
(* The 26 letters are scaled down to the first NumLetters (React) and      *)
(* NumLettersJS (xenocrypt.js) letters of the Latin alphabet.              *)
(***************************************************************************)
EXTENDS Integers, Sequences, FiniteSets, TLC

VARIABLES
    program,          \* which variant is running
    last,             \* history: the last handler that ran, with its arguments
    \* --- XenocryptPractice (React state, part_000:92-99)
    puzzleData, substitutions, selectedLetter, isSolved, frequency,
    \* --- xenocrypt.js (module globals, xenocrypt.js:4-9, and the message area)
    loadedPuzzles, currentPlaintext, currentCiphertext, correctKey,
    substitutionMap, frequencyMap, messageArea, buttonsDisabled, listening,
    \* --- generateCipher's retry loop, step by step (part_000:22-62)
    pc, quote, shuffledAlphabet, attempts, cipherResult,
    \* --- generateRandomKey's repair loop, step by step (xenocrypt.js:74-108)
    keyPc, pickedQuote, sortedTarget, plainTarget, keyMap

vars == <<program, last, puzzleData, substitutions, selectedLetter, isSolved,
          frequency,
          loadedPuzzles, currentPlaintext, currentCiphertext, correctKey,
          substitutionMap, frequencyMap, messageArea, buttonsDisabled, listening,
          pc, quote, shuffledAlphabet, attempts, cipherResult,
          keyPc, pickedQuote, sortedTarget, plainTarget, keyMap>>

reactVars == <<puzzleData, substitutions, selectedLetter, isSolved, frequency>>
jsVars == <<loadedPuzzles, currentPlaintext, currentCiphertext, correctKey,
            substitutionMap, frequencyMap, messageArea, buttonsDisabled,
            listening>>
cipherVars == <<pc, quote, shuffledAlphabet, attempts, cipherResult>>
keyVars == <<keyPc, pickedQuote, sortedTarget, plainTarget, keyMap>>

---------------------------------------------------------------------------
(* Bounds of the model *)

\* number of letters of A..Z kept in the React variant's alphabet
NumLetters == 3
\* number of letters of A..Z kept in the alphabet of xenocrypt.js
NumLettersJS == 2

---------------------------------------------------------------------------
(* Characters *)

Latin == <<"A", "B", "C", "D", "E", "F">>
LatinLower == <<"a", "b", "c", "d", "e", "f">>

\* the two UTF-16 units U+00C3 and U+2018 the literal of xenocrypt.js:19
\* holds between N and O, and the letter U+00D1 they stand for
ATilde == "A-tilde"
LQuote == "lquote"
NTilde == "N-tilde"
AAcute == "A-acute"

Null == "null"
Placeholder == "_"

\* the character class A-Z of the regular expressions
AZ == {Latin[i] : i \in 1..Len(Latin)}

\* String.prototype.toUpperCase on one character
ToUpperChar(c) ==
    IF \E i \in 1..Len(LatinLower) : LatinLower[i] = c
    THEN Latin[CHOOSE i \in 1..Len(LatinLower) : LatinLower[i] = c]
    ELSE c

toUpperCase(text) == [i \in 1..Len(text) |-> ToUpperChar(text[i])]

Range(f) == {f[x] : x \in DOMAIN f}

\* the permutations of a sequence: what sort() with a random comparator yields
Shuffles(seq) ==
    {p \in [1..Len(seq) -> Range(seq)] :
        \A i, j \in 1..Len(seq) : i # j => p[i] # p[j]}

EmptyMap == [c \in {} |-> Null]

\* obj[k] = v   and   delete obj[k]
MapSet(m, k, v) == [c \in (DOMAIN m) \cup {k} |-> IF c = k THEN v ELSE m[c]]
MapDelete(m, k) == [c \in (DOMAIN m) \ {k} |-> m[c]]

\* text.replace(/[^...]/g, ''): keep the characters of the class
RECURSIVE Keep(_, _)
Keep(text, class) ==
    IF text = <<>> THEN <<>>
    ELSE (IF Head(text) \in class THEN <<Head(text)>> ELSE <<>>)
         \o Keep(Tail(text), class)

---------------------------------------------------------------------------
(* XenocryptPractice: src/unnamed/part_000 *)

ALPHABET == SubSeq(Latin, 1, NumLetters)
AlphabetSet == Range(ALPHABET)

normalizeText(text) == toUpperCase(text)

\* the quotes of the component, scaled to the model's alphabet: letters that
\* repeat, spaces and punctuation, and the Spanish letters outside A..Z
puzzles ==
    << <<"A", "B", " ", "A", ".">>,
       <<"A", NTilde, "B", "C">>,
       <<"C", AAcute, "C">> >>

RetryBudget == 100

\* the test with the last letter left out
HasSelfMappingButLast(shuffled) ==
    \E i \in 1..(Len(ALPHABET) - 1) : ALPHABET[i] = shuffled[i]

\* ALPHABET.some((letter, i) => letter === shuffledAlphabet[i])
HasSelfMapping(shuffled) ==
    \E i \in 1..Len(ALPHABET) : ALPHABET[i] = shuffled[i]

\* step 2 of generateCipher: originalMapping[plain] = shuffledAlphabet[i]
BuildOriginalMapping(shuffled) ==
    [plain \in AlphabetSet |->
        shuffled[CHOOSE i \in 1..Len(ALPHABET) : ALPHABET[i] = plain]]

\* the encryption with the test for a letter of the alphabet left out: a
\* character without an entry in originalMapping becomes undefined
EncryptReactUntested(normalizedPlaintext, originalMapping) ==
    [i \in 1..Len(normalizedPlaintext) |->
        IF normalizedPlaintext[i] \in DOMAIN originalMapping
        THEN originalMapping[normalizedPlaintext[i]]
        ELSE "undefined"]

\* step 3 of generateCipher
EncryptReact(normalizedPlaintext, originalMapping) ==
    [i \in 1..Len(normalizedPlaintext) |->
        IF normalizedPlaintext[i] \in AlphabetSet
        THEN originalMapping[normalizedPlaintext[i]]
        ELSE normalizedPlaintext[i]]

\* what generateCipher returns once its loop has left shuffled
CipherOf(q, shuffled) ==
    LET normalizedPlaintext == normalizeText(q)
        originalMapping == BuildOriginalMapping(shuffled)
    IN [originalMapping |-> originalMapping,
        ciphertext |-> EncryptReact(normalizedPlaintext, originalMapping),
        truePlaintext |-> normalizedPlaintext]

\* the loop of generateCipher can leave shuffled after n reshuffles
LoopLeaves(shuffled, n) ==
    \/ n <= RetryBudget /\ ~HasSelfMapping(shuffled)
    \/ n = RetryBudget + 1

\* the values of shuffledAlphabet the loop of generateCipher can end with
FinalShuffles ==
    {shuffled \in Shuffles(ALPHABET) :
        \E n \in 0..(RetryBudget + 1) : LoopLeaves(shuffled, n)}

\* puzzleData = null
NoPuzzle == [originalMapping |-> EmptyMap, ciphertext |-> <<>>,
             truePlaintext |-> <<>>]

\* the useMemo currentPlaintext
currentPlaintextOf(pd, subs) ==
    IF pd = NoPuzzle THEN <<>>
    ELSE [i \in 1..Len(pd.ciphertext) |->
            IF pd.ciphertext[i] \in AlphabetSet
            THEN (IF pd.ciphertext[i] \in DOMAIN subs
                  THEN subs[pd.ciphertext[i]] ELSE Placeholder)
            ELSE pd.ciphertext[i]]

\* the character class A-ZÑÁÉÍÓÚ of the solution check
SolutionClass == AZ \cup {NTilde, AAcute}

\* the comparison of the solution-check effect
CleanEqual(pd, subs) ==
    Keep(currentPlaintextOf(pd, subs), SolutionClass)
        = Keep(pd.truePlaintext, SolutionClass)

\* the solution-check effect: isSolved after the render that follows a handler
\* which left isSolved at solved
SolutionEffect(pd, subs, solved) ==
    IF pd # NoPuzzle /\ CleanEqual(pd, subs) THEN TRUE ELSE solved

\* one step of the forEach of getFrequency: frequency[char] =
\* (frequency[char] || 0) + 1 for a char of the alphabet. The object is kept
\* as its entries in the order Object.entries lists them: a key is appended
\* when it is first written
CountChar(entries, char, alphabet) ==
    IF char \notin alphabet THEN entries
    ELSE IF \E k \in 1..Len(entries) : entries[k].letter = char
    THEN [k \in 1..Len(entries) |->
            IF entries[k].letter = char
            THEN [entries[k] EXCEPT !.count = @ + 1] ELSE entries[k]]
    ELSE Append(entries, [letter |-> char, count |-> 1])

\* text.split('').forEach(...) from the character at index i on
RECURSIVE CountChars(_, _, _, _)
CountChars(entries, text, i, alphabet) ==
    IF i > Len(text) THEN entries
    ELSE CountChars(CountChar(entries, text[i], alphabet), text, i + 1, alphabet)

\* entries.sort((a, b) => b.count - a.count): Array.prototype.sort is stable,
\* so an entry comes after the entries with a greater count and after the
\* entries with its count that stood before it
SortByCount(entries) ==
    LET before(k) == {j \in 1..Len(entries) :
                        \/ entries[j].count > entries[k].count
                        \/ entries[j].count = entries[k].count /\ j < k}
    IN [r \in 1..Len(entries) |->
          entries[CHOOSE k \in 1..Len(entries) : Cardinality(before(k)) = r - 1]]

\* the count without the test ALPHABET.includes(char)
getFrequencyOfEveryChar(text) ==
    SortByCount(CountChars(<<>>, text, 1, Range(text)))

\* getFrequency; the percentage of an entry, a rendering of count and total,
\* is left out
getFrequency(text) == SortByCount(CountChars(<<>>, text, 1, AlphabetSet))

\* hadGuesses: the guess mapping held entries when generateNewPuzzle was called
NoArgs == [op |-> "init", cipher |-> Null, plain |-> Null, conflict |-> Null,
           hadGuesses |-> FALSE]

generateNewPuzzle ==
    /\ program = "XenocryptPractice"
    /\ \E i \in 1..Len(puzzles), shuffled \in FinalShuffles :
         puzzleData' = CipherOf(puzzles[i], shuffled)
    /\ substitutions' = EmptyMap
    /\ selectedLetter' = Null
    /\ isSolved' = SolutionEffect(puzzleData', EmptyMap, FALSE)
    /\ frequency' = getFrequency(puzzleData'.ciphertext)
    /\ last' = [NoArgs EXCEPT !.op = "generateNewPuzzle",
                              !.hadGuesses = (substitutions # EmptyMap)]
    /\ UNCHANGED <<program, jsVars, cipherVars, keyVars>>

\* the click handler with a write to the substitutions: the entry of the
\* clicked letter is dropped
handleCipherLetterClickClearing(cipherLetter) ==
    /\ program = "XenocryptPractice"
    /\ puzzleData # NoPuzzle
    /\ selectedLetter' = IF selectedLetter = cipherLetter THEN Null
                         ELSE cipherLetter
    /\ substitutions' = MapDelete(substitutions, cipherLetter)
    /\ last' = [NoArgs EXCEPT !.op = "handleCipherLetterClick",
                              !.cipher = cipherLetter]
    /\ UNCHANGED <<puzzleData, isSolved, frequency>>
    /\ UNCHANGED <<program, jsVars, cipherVars, keyVars>>

handleCipherLetterClick(cipherLetter) ==
    /\ program = "XenocryptPractice"
    /\ puzzleData # NoPuzzle
    /\ selectedLetter' = IF selectedLetter = cipherLetter THEN Null
                         ELSE cipherLetter
    /\ last' = [NoArgs EXCEPT !.op = "handleCipherLetterClick",
                              !.cipher = cipherLetter]
    /\ UNCHANGED <<puzzleData, substitutions, isSolved, frequency>>
    /\ UNCHANGED <<program, jsVars, cipherVars, keyVars>>

\* Object.keys(substitutions).find(key => key !== selectedLetter &&
\* substitutions[key] === plainLetter); at most one key qualifies while the
\* map is injective
ExistingCipherLetters(subs, selected, plainLetter) ==
    {key \in DOMAIN subs : key # selected /\ subs[key] = plainLetter}

\* the assignment without the removal of the letter that held plainLetter
SubstitutionsAfterKeepingOld(subs, selected, plainLetter) ==
    MapSet(subs, selected, plainLetter)

\* the conflict branch without newSubs[selectedLetter] = plainLetter
SubstitutionsAfterDeleteOnly(subs, selected, plainLetter) ==
    LET existing == ExistingCipherLetters(subs, selected, plainLetter)
    IN IF existing # {}
       THEN MapDelete(subs, CHOOSE key \in existing : TRUE)
       ELSE MapSet(subs, selected, plainLetter)

SubstitutionsAfter(subs, selected, plainLetter) ==
    LET existing == ExistingCipherLetters(subs, selected, plainLetter)
    IN IF existing # {}
       THEN MapSet(MapDelete(subs, CHOOSE key \in existing : TRUE),
                   selected, plainLetter)
       ELSE MapSet(subs, selected, plainLetter)

\* the guard left out: the handler goes on without a selected letter
NotSelectedIgnored(selected) == FALSE

\* !selectedLetter
NotSelected(selected) == selected = Null

\* the handler without its last statement
SelectionKept(selected) == selected

\* setSelectedLetter(null) after the substitution
SelectionAfterSubstitution(selected) == Null

handleSubstitution(plainLetter) ==
    /\ program = "XenocryptPractice"
    /\ puzzleData # NoPuzzle
    /\ IF NotSelected(selectedLetter)
       THEN /\ UNCHANGED <<substitutions, selectedLetter, isSolved>>
            /\ last' = [NoArgs EXCEPT !.op = "handleSubstitution",
                                      !.plain = plainLetter]
       ELSE LET existing ==
                    ExistingCipherLetters(substitutions, selectedLetter, plainLetter)
            IN /\ substitutions' =
                    SubstitutionsAfter(substitutions, selectedLetter, plainLetter)
               /\ selectedLetter' = SelectionAfterSubstitution(selectedLetter)
               /\ isSolved' = SolutionEffect(puzzleData, substitutions', isSolved)
               /\ last' = [op |-> "handleSubstitution",
                           cipher |-> selectedLetter,
                           plain |-> plainLetter,
                           conflict |-> IF existing # {}
                                        THEN CHOOSE key \in existing : TRUE
                                        ELSE Null,
                           hadGuesses |-> FALSE]
    /\ UNCHANGED <<puzzleData, frequency>>
    /\ UNCHANGED <<program, jsVars, cipherVars, keyVars>>

SubstitutionsCleared(subs, cipherLetter) == MapDelete(subs, cipherLetter)

handleClearSubstitution(cipherLetter) ==
    /\ program = "XenocryptPractice"
    /\ puzzleData # NoPuzzle
    /\ substitutions' = SubstitutionsCleared(substitutions, cipherLetter)
    /\ selectedLetter' = Null
    /\ isSolved' = SolutionEffect(puzzleData, substitutions', isSolved)
    /\ last' = [NoArgs EXCEPT !.op = "handleClearSubstitution",
                              !.cipher = cipherLetter]
    /\ UNCHANGED <<puzzleData, frequency>>
    /\ UNCHANGED <<program, jsVars, cipherVars, keyVars>>

---------------------------------------------------------------------------
(* generateCipher of part_000, its loop taken one iteration at a time *)

\* one iteration of the while loop: the test found a self-mapping; shuffle
\* again, count the attempt, break when the budget is spent
Reshuffle ==
    /\ program = "generateCipher"
    /\ pc = "loop"
    /\ HasSelfMapping(shuffledAlphabet)
    /\ shuffledAlphabet' \in Shuffles(ALPHABET)
    /\ attempts' = attempts + 1
    /\ pc' = IF attempts' > RetryBudget THEN "build" ELSE "loop"
    /\ UNCHANGED <<quote, cipherResult>>
    /\ UNCHANGED <<program, last, reactVars, jsVars, keyVars>>

\* the loop is left (by its test or by the break): steps 2 and 3 and the return
BuildCipher ==
    /\ program = "generateCipher"
    /\ \/ pc = "build"
       \/ pc = "loop" /\ ~HasSelfMapping(shuffledAlphabet)
    /\ cipherResult' = CipherOf(quote, shuffledAlphabet)
    /\ pc' = "done"
    /\ UNCHANGED <<quote, shuffledAlphabet, attempts>>
    /\ UNCHANGED <<program, last, reactVars, jsVars, keyVars>>

---------------------------------------------------------------------------
(* src/xenocrypt.js *)

\* the literal 'ABCDEFGHIJKLMN' + U+00C3 + U+2018 + 'OPQRSTUVWXYZ' of line 19:
\* the two units that stand where one letter was meant sit before the last
\* letters; here before the last letter
ALPHABET_JS ==
    SubSeq(Latin, 1, NumLettersJS - 1) \o <<ATilde, LQuote>>
        \o <<Latin[NumLettersJS]>>
AlphabetSetJS == Range(ALPHABET_JS)

\* the literal 27 of the loop that fills keyMap: the letters of A..Z and the
\* one letter more the alphabet was meant to hold
KeyMapEntries == NumLettersJS + 1

\* spanish_quotes.json: raw quotes, in mixed case, with letters outside A..Z,
\* spaces, punctuation and typographic quotes
QuotesJS ==
    << <<"a", NTilde, "B", " ", "A">>,
       <<"B", LQuote, ".">> >>

\* what response.json() can deliver
LoadedLists == {<<>>, QuotesJS}

\* the scan for a fixed point that stops before the last index
FirstFixedPointButLast(source, target) ==
    IF \E i \in 1..(Len(source) - 1) : source[i] = target[i]
    THEN CHOOSE i \in 1..(Len(source) - 1) :
            /\ source[i] = target[i]
            /\ \A k \in 1..(i - 1) : source[k] # target[k]
    ELSE 0

\* the first index i with cipherSource[i] === plainTarget[i], 0 when none
FirstFixedPoint(source, target) ==
    IF \E i \in 1..Len(source) : source[i] = target[i]
    THEN CHOOSE i \in 1..Len(source) :
            /\ source[i] = target[i]
            /\ \A k \in 1..(i - 1) : source[k] # target[k]
    ELSE 0

\* [plainTarget[i], plainTarget[j]] = [plainTarget[j], plainTarget[i]]
Swap(seq, i, j) ==
    [k \in 1..Len(seq) |-> IF k = i THEN seq[j] ELSE IF k = j THEN seq[i] ELSE seq[k]]

\* the while loop of generateRandomKey: swap the first fixed point with its
\* successor (indices from 1: j = (i + 1) % length is (i % length) + 1) and
\* scan again, until a scan finds none
RECURSIVE RepairFixedPoints(_, _)
RepairFixedPoints(source, target) ==
    LET i == FirstFixedPoint(source, target)
    IN IF i = 0 THEN target
       ELSE RepairFixedPoints(source,
                Swap(target, i, (i % Len(source)) + 1))

\* for (i = 0; i < 27; i++) keyMap[cipherSource[i]] = plainTarget[i]
KeyMapOf(source, target) ==
    [c \in {source[i] : i \in 1..KeyMapEntries} |->
        target[CHOOSE i \in 1..KeyMapEntries : source[i] = c]]

\* generateRandomKey, for the outcome shuffle of the initial random sort
generateRandomKey(shuffle) ==
    KeyMapOf(ALPHABET_JS, RepairFixedPoints(ALPHABET_JS, shuffle))

\* the keys generateRandomKey can return
GeneratedKeys == {generateRandomKey(shuffle) : shuffle \in Shuffles(ALPHABET_JS)}

\* inverseKey[plain] = cipher for every entry of key
InverseKey(key) ==
    [plain \in Range(key) |-> CHOOSE cipher \in DOMAIN key : key[cipher] = plain]

encryptMessage(text, key) ==
    LET inverseKey == InverseKey(key)
        upper == toUpperCase(text)
    IN [i \in 1..Len(upper) |->
          IF upper[i] \in AlphabetSetJS
          THEN (IF upper[i] \in DOMAIN inverseKey
                THEN inverseKey[upper[i]] ELSE upper[i])
          ELSE upper[i]]

\* currentDecryptedText of checkSolution
DecryptedText(ciphertext, map) ==
    [i \in 1..Len(ciphertext) |->
        IF ciphertext[i] \in AlphabetSetJS
        THEN (IF ciphertext[i] \in DOMAIN map
              THEN map[ciphertext[i]] ELSE Placeholder)
        ELSE ciphertext[i]]

cleanDecrypted(ciphertext, map) == Keep(DecryptedText(ciphertext, map), AZ)
cleanPlaintext(plaintext) == Keep(plaintext, AZ)

\* the condition under which checkSolution announces the solution
SolvedJS(ciphertext, map, plaintext) ==
    /\ cleanDecrypted(ciphertext, map) = cleanPlaintext(plaintext)
    /\ Len(cleanPlaintext(plaintext)) > 0

\* messageArea.textContent after checkSolution
checkSolution(ciphertext, map, plaintext, message) ==
    IF SolvedJS(ciphertext, map, plaintext) THEN "CONGRATULATIONS"
    ELSE IF message \in {"CONGRATULATIONS", "Conflict resolved"} THEN message
    ELSE ""

\* the forEach of calculateFrequency from index i on: counts[char]++ for the
\* characters of the alphabet
RECURSIVE CountUp(_, _, _)
CountUp(counts, text, i) ==
    IF i > Len(text) THEN counts
    ELSE CountUp(IF text[i] \in DOMAIN counts
                 THEN [counts EXCEPT ![text[i]] = @ + 1] ELSE counts,
                 text, i + 1)

\* calculateFrequency: counts[char] = 0 for every unit of ALPHABET, then the
\* count over currentCiphertext.toUpperCase(); the result is frequencyMap
calculateFrequency(ciphertext) ==
    CountUp([char \in AlphabetSetJS |-> 0], toUpperCase(ciphertext), 1)

\* the body of generateNewPuzzle without step 4, the reset of the guesses
NewPuzzleJSKeepingGuesses(rawQuote, key) ==
    /\ currentPlaintext' = toUpperCase(rawQuote)
    /\ correctKey' = key
    /\ currentCiphertext' = encryptMessage(rawQuote, key)
    /\ UNCHANGED substitutionMap
    /\ frequencyMap' = calculateFrequency(currentCiphertext')
    /\ messageArea' = "New puzzle loaded"

\* the body of generateNewPuzzle once a quote is there
NewPuzzleJS(rawQuote, key) ==
    /\ currentPlaintext' = toUpperCase(rawQuote)
    /\ correctKey' = key
    /\ currentCiphertext' = encryptMessage(rawQuote, key)
    /\ substitutionMap' = EmptyMap
    /\ frequencyMap' = calculateFrequency(currentCiphertext')
    /\ messageArea' = "New puzzle loaded"

\* the DOMContentLoaded listener: load the quotes, build the first puzzle
\* when there are quotes, attach the buttons' listeners
DOMContentLoaded ==
    /\ program = "xenocrypt.js"
    /\ ~listening
    /\ listening' = TRUE
    /\ \/ /\ UNCHANGED <<loadedPuzzles, currentPlaintext, currentCiphertext,
                         correctKey, substitutionMap, frequencyMap>>
          /\ messageArea' = "ERROR"
          /\ buttonsDisabled' = TRUE
       \/ /\ \E list \in LoadedLists :
               /\ loadedPuzzles' = list
               /\ IF Len(list) > 0
                  THEN \E i \in 1..Len(list), key \in GeneratedKeys :
                          NewPuzzleJS(list[i], key)
                  ELSE /\ messageArea' = "Puzzles loaded successfully"
                       /\ UNCHANGED <<currentPlaintext, currentCiphertext,
                                      correctKey, substitutionMap,
                                      frequencyMap>>
          /\ UNCHANGED buttonsDisabled
    /\ last' = [NoArgs EXCEPT !.op = "DOMContentLoaded"]
    /\ UNCHANGED <<program, reactVars, cipherVars, keyVars>>

\* generateNewPuzzle with the key drawn before the test for an empty list
generateNewPuzzleJSKeyFirst ==
    /\ program = "xenocrypt.js"
    /\ listening
    /\ ~buttonsDisabled
    /\ IF Len(loadedPuzzles) = 0
       THEN /\ messageArea' = "Puzzles not loaded"
            /\ correctKey' \in GeneratedKeys
            /\ UNCHANGED <<currentPlaintext, currentCiphertext,
                           substitutionMap, frequencyMap>>
       ELSE \E i \in 1..Len(loadedPuzzles), key \in GeneratedKeys :
               NewPuzzleJS(loadedPuzzles[i], key)
    /\ last' = [NoArgs EXCEPT !.op = "generateNewPuzzle",
                              !.hadGuesses = (substitutionMap # EmptyMap)]
    /\ UNCHANGED <<loadedPuzzles, buttonsDisabled, listening>>
    /\ UNCHANGED <<program, reactVars, cipherVars, keyVars>>

generateNewPuzzleJS ==
    /\ program = "xenocrypt.js"
    /\ listening
    /\ ~buttonsDisabled
    /\ IF Len(loadedPuzzles) = 0
       THEN /\ messageArea' = "Puzzles not loaded"
            /\ UNCHANGED <<currentPlaintext, currentCiphertext, correctKey,
                           substitutionMap, frequencyMap>>
       ELSE \E i \in 1..Len(loadedPuzzles), key \in GeneratedKeys :
               NewPuzzleJS(loadedPuzzles[i], key)
    /\ last' = [NoArgs EXCEPT !.op = "generateNewPuzzle",
                              !.hadGuesses = (substitutionMap # EmptyMap)]
    /\ UNCHANGED <<loadedPuzzles, buttonsDisabled, listening>>
    /\ UNCHANGED <<program, reactVars, cipherVars, keyVars>>

\* what can be in the box handlePlainTextInput reads: at most one character
\* (maxLength = 1), a letter in either case, a digit or a unit of the alphabet
TypedValues ==
    {<<>>} \cup {<<c>> : c \in AlphabetSetJS \cup {"a", "1"}}

\* plainChar of handlePlainTextInput: the upper-cased last character of the
\* value, '' (here Null) when it is no character of the alphabet
PlainCharOf(value) ==
    LET upper == toUpperCase(value)
        lastChar == IF Len(upper) > 1 THEN upper[Len(upper)]
                    ELSE IF Len(upper) = 1 THEN upper[1] ELSE Null
    IN IF lastChar # Null /\ lastChar \notin AlphabetSetJS THEN Null
       ELSE lastChar

\* Object.keys(substitutionMap).find(key => substitutionMap[key] === plainChar
\* && key !== cipherChar); at most one key qualifies while the map is injective
ConflictCiphers(map, plainChar, cipherChar) ==
    {key \in DOMAIN map : map[key] = plainChar /\ key # cipherChar}

\* the input handler without the removal of the conflicting letter
SubstitutionMapAfterKeepingOld(map, plainChar, cipherChar) ==
    IF plainChar # Null THEN MapSet(map, cipherChar, plainChar)
    ELSE MapDelete(map, cipherChar)

SubstitutionMapAfter(map, plainChar, cipherChar) ==
    IF plainChar # Null
    THEN LET conflicts == ConflictCiphers(map, plainChar, cipherChar)
         IN IF conflicts # {}
            THEN MapSet(MapDelete(map, CHOOSE key \in conflicts : TRUE),
                        cipherChar, plainChar)
            ELSE MapSet(map, cipherChar, plainChar)
    ELSE MapDelete(map, cipherChar)

\* the cipher letters that have input boxes in the rendered grid
GridCipherChars == Range(currentCiphertext) \cap AlphabetSetJS

handlePlainTextInput(value, cipherChar) ==
    /\ program = "xenocrypt.js"
    /\ listening
    /\ cipherChar \in GridCipherChars
    /\ LET plainChar == PlainCharOf(value)
           conflicts == IF plainChar # Null
                        THEN ConflictCiphers(substitutionMap, plainChar, cipherChar)
                        ELSE {}
       IN /\ substitutionMap' =
                SubstitutionMapAfter(substitutionMap, plainChar, cipherChar)
          /\ messageArea' =
                checkSolution(currentCiphertext, substitutionMap', currentPlaintext,
                    IF conflicts # {} THEN "Conflict resolved" ELSE messageArea)
          /\ last' = [op |-> "handlePlainTextInput", cipher |-> cipherChar,
                      plain |-> plainChar,
                      conflict |-> IF conflicts # {}
                                   THEN CHOOSE key \in conflicts : TRUE
                                   ELSE Null,
                      hadGuesses |-> FALSE]
    /\ UNCHANGED <<loadedPuzzles, currentPlaintext, currentCiphertext,
                   correctKey, frequencyMap, buttonsDisabled, listening>>
    /\ UNCHANGED <<program, reactVars, cipherVars, keyVars>>

clearMappings ==
    /\ program = "xenocrypt.js"
    /\ listening
    /\ ~buttonsDisabled
    /\ substitutionMap' = EmptyMap
    /\ messageArea' = "All mappings cleared"
    /\ last' = [NoArgs EXCEPT !.op = "clearMappings"]
    /\ UNCHANGED <<loadedPuzzles, currentPlaintext, currentCiphertext,
                   correctKey, frequencyMap, buttonsDisabled, listening>>
    /\ UNCHANGED <<program, reactVars, cipherVars, keyVars>>

\* substitutionMap = { ...correctKey }
RevealedMap(key) == key

giveUp ==
    /\ program = "xenocrypt.js"
    /\ listening
    /\ IF currentCiphertext = <<>>
       THEN UNCHANGED <<substitutionMap, messageArea>>
       ELSE /\ substitutionMap' = RevealedMap(correctKey)
            /\ messageArea' = "Solution Revealed"
    /\ last' = [NoArgs EXCEPT !.op = "giveUp"]
    /\ UNCHANGED <<loadedPuzzles, currentPlaintext, currentCiphertext,
                   correctKey, frequencyMap, buttonsDisabled, listening>>
    /\ UNCHANGED <<program, reactVars, cipherVars, keyVars>>

---------------------------------------------------------------------------
(* generateNewPuzzle of xenocrypt.js with generateRandomKey taken one
   iteration of its while loop at a time *)

\* one iteration of while (hasFixedPoints) that finds a fixed point: swap it
\* with its successor, break, scan again
RepairSwap ==
    /\ program = "generateRandomKey"
    /\ keyPc = "scan"
    /\ LET i == FirstFixedPoint(ALPHABET_JS, plainTarget)
       IN /\ i # 0
          /\ plainTarget' = Swap(plainTarget, i, (i % Len(ALPHABET_JS)) + 1)
    /\ UNCHANGED <<keyPc, pickedQuote, sortedTarget, keyMap>>
    /\ UNCHANGED <<program, last, reactVars, jsVars, cipherVars>>

\* the iteration whose scan finds no fixed point: the loop ends, keyMap is
\* filled and returned into correctKey
BuildKeyMap ==
    /\ program = "generateRandomKey"
    /\ keyPc = "scan"
    /\ FirstFixedPoint(ALPHABET_JS, plainTarget) = 0
    /\ keyMap' = KeyMapOf(ALPHABET_JS, plainTarget)
    /\ correctKey' = keyMap'
    /\ keyPc' = "encrypt"
    /\ UNCHANGED <<pickedQuote, sortedTarget, plainTarget>>
    /\ UNCHANGED <<loadedPuzzles, currentPlaintext, currentCiphertext,
                   substitutionMap, frequencyMap, messageArea, buttonsDisabled,
                   listening>>
    /\ UNCHANGED <<program, last, reactVars, cipherVars>>

\* steps 3 to 6 of generateNewPuzzle
EncryptQuote ==
    /\ program = "generateRandomKey"
    /\ keyPc = "encrypt"
    /\ currentCiphertext' = encryptMessage(pickedQuote, correctKey)
    /\ substitutionMap' = EmptyMap
    /\ frequencyMap' = calculateFrequency(currentCiphertext')
    /\ messageArea' = "New puzzle loaded"
    /\ keyPc' = "done"
    /\ UNCHANGED <<pickedQuote, sortedTarget, plainTarget, keyMap>>
    /\ UNCHANGED <<loadedPuzzles, currentPlaintext, correctKey, buttonsDisabled,
                   listening>>
    /\ UNCHANGED <<program, last, reactVars, cipherVars>>

---------------------------------------------------------------------------
(* Initial states and specifications *)

InitReact ==
    /\ puzzleData = NoPuzzle
    /\ substitutions = EmptyMap
    /\ selectedLetter = Null
    /\ isSolved = FALSE
    /\ frequency = <<>>

InitJS ==
    /\ loadedPuzzles = <<>>
    /\ currentPlaintext = <<>>
    /\ currentCiphertext = <<>>
    /\ correctKey = EmptyMap
    /\ substitutionMap = EmptyMap
    /\ frequencyMap = EmptyMap
    /\ messageArea = ""
    /\ buttonsDisabled = FALSE
    /\ listening = FALSE

InitCipher ==
    /\ pc = "idle"
    /\ quote = <<>>
    /\ shuffledAlphabet = <<>>
    /\ attempts = 0
    /\ cipherResult = NoPuzzle

InitKey ==
    /\ keyPc = "idle"
    /\ pickedQuote = <<>>
    /\ sortedTarget = <<>>
    /\ plainTarget = <<>>
    /\ keyMap = EmptyMap

Init ==
    /\ program \in {"XenocryptPractice", "xenocrypt.js"}
    /\ last = NoArgs
    /\ InitReact
    /\ InitJS
    /\ InitCipher
    /\ InitKey

NextReact ==
    \/ generateNewPuzzle
    \/ \E cipherLetter \in AlphabetSet : handleCipherLetterClick(cipherLetter)
    \/ \E plainLetter \in AlphabetSet : handleSubstitution(plainLetter)
    \/ \E cipherLetter \in AlphabetSet : handleClearSubstitution(cipherLetter)

NextJS ==
    \/ DOMContentLoaded
    \/ generateNewPuzzleJS
    \/ \E value \in TypedValues, cipherChar \in AlphabetSetJS :
          handlePlainTextInput(value, cipherChar)
    \/ clearMappings
    \/ giveUp

Next == NextReact \/ NextJS

\* either variant
Spec == Init /\ [][Next]_vars

\* generateCipher alone: a quote and the first shuffle are drawn, then the
\* loop runs
InitGenerateCipher ==
    /\ program = "generateCipher"
    /\ last = NoArgs
    /\ InitReact
    /\ InitJS
    /\ pc = "loop"
    /\ quote \in Range(puzzles)
    /\ shuffledAlphabet \in Shuffles(ALPHABET)
    /\ attempts = 0
    /\ cipherResult = NoPuzzle
    /\ InitKey

NextGenerateCipher == Reshuffle \/ BuildCipher

SpecCipher == InitGenerateCipher /\ [][NextGenerateCipher]_vars

\* generateNewPuzzle of xenocrypt.js on its first call, from the
\* DOMContentLoaded listener: the quote and the random sort are drawn, the
\* repair loop starts
InitGenerateRandomKey ==
    /\ program = "generateRandomKey"
    /\ last = NoArgs
    /\ InitReact
    /\ InitCipher
    /\ loadedPuzzles = QuotesJS
    /\ pickedQuote \in Range(loadedPuzzles)
    /\ currentPlaintext = toUpperCase(pickedQuote)
    /\ currentCiphertext = <<>>
    /\ correctKey = EmptyMap
    /\ substitutionMap = EmptyMap
    /\ frequencyMap = EmptyMap
    /\ messageArea = "Puzzles loaded successfully"
    /\ buttonsDisabled = FALSE
    /\ listening = FALSE
    /\ keyPc = "scan"
    /\ sortedTarget \in Shuffles(ALPHABET_JS)
    /\ plainTarget = sortedTarget
    /\ keyMap = EmptyMap

NextGenerateRandomKey == RepairSwap \/ BuildKeyMap \/ EncryptQuote

\* the calls are synchronous: a step that can be taken is taken
SpecKey ==
    /\ InitGenerateRandomKey
    /\ [][NextGenerateRandomKey]_vars
    /\ WF_vars(NextGenerateRandomKey)

\* the React component alone
InitXenocryptPractice == Init /\ program = "XenocryptPractice"

SpecReact == InitXenocryptPractice /\ [][NextReact]_vars

\* the DOM script alone
InitXenocryptJS == Init /\ program = "xenocrypt.js"

SpecJS == InitXenocryptJS /\ [][NextJS]_vars

---------------------------------------------------------------------------
(* Properties *)

Injective(map) ==
    \A c1, c2 \in DOMAIN map : c1 # c2 => map[c1] # map[c2]

\* the cipher letters that hold the plain letter x
Holders(map, x) == {c \in DOMAIN map : map[c] = x}

\* every entry other than those of c1 and c2 is the same in before and after
SameElsewhere(before, after, c1, c2) ==
    /\ (DOMAIN before) \ {c1, c2} = (DOMAIN after) \ {c1, c2}
    /\ \A c \in (DOMAIN before) \ {c1, c2} : after[c] = before[c]

\* C1: in the React variant the substitutions map is injective in every
\* reachable state: no two distinct cipher letters map to the same plain letter
C1_SubstitutionsInjective == Injective(substitutions)

\* a conflict has just been resolved and two cipher letters are mapped
C1_Witness ==
    /\ last.op = "handleSubstitution"
    /\ last.conflict # Null
    /\ Cardinality(DOMAIN substitutions) >= 2

\* C2: in xenocrypt.js substitutionMap is injective in every reachable state,
\* also when guesses are typed after giveUp copied correctKey into it
C2_SubstitutionMapInjective == Injective(substitutionMap)

\* a guess typed after giveUp took a plain letter from a revealed entry: the
\* map still holds an entry for a cipher letter that has no input box, which
\* only giveUp writes
C2_Witness ==
    /\ last.op = "handlePlainTextInput"
    /\ last.conflict # Null
    /\ ~(DOMAIN substitutionMap \subseteq GridCipherChars)

\* C3: conflict resolution. When c1 maps to x and x is assigned to another
\* cipher letter c2 (handleSubstitution(x) with c2 selected;
\* handlePlainTextInput with value x on c2), then afterwards c1 is unmapped,
\* c2 maps to x, exactly one cipher letter holds x, and every entry other
\* than those of c1 and c2 is unchanged
C3_Resolved(before, after, c1, c2, x) ==
    /\ c1 \notin DOMAIN after
    /\ c2 \in DOMAIN after
    /\ after[c2] = x
    /\ Cardinality(Holders(after, x)) = 1
    /\ SameElsewhere(before, after, c1, c2)

C3_ConflictResolution ==
    [][ /\ \A c1 \in DOMAIN substitutions :
            ( /\ last'.op = "handleSubstitution"
              /\ selectedLetter # Null
              /\ selectedLetter # c1
              /\ last'.plain = substitutions[c1] )
            => C3_Resolved(substitutions, substitutions', c1, selectedLetter,
                           substitutions[c1])
        /\ \A c1 \in DOMAIN substitutionMap :
            ( /\ last'.op = "handlePlainTextInput"
              /\ last'.cipher # c1
              /\ last'.plain = substitutionMap[c1] )
            => C3_Resolved(substitutionMap, substitutionMap', c1, last'.cipher,
                           substitutionMap[c1])
      ]_vars

\* a conflict has just been resolved in the React variant while a third
\* cipher letter kept its mapping
C3_Witness ==
    /\ last.op = "handleSubstitution"
    /\ last.conflict # Null
    /\ last.conflict \notin DOMAIN substitutions
    /\ \E c \in DOMAIN substitutions : c # last.cipher

\* the same in xenocrypt.js
C3_WitnessJS ==
    /\ last.op = "handlePlainTextInput"
    /\ last.conflict # Null
    /\ last.conflict \notin DOMAIN substitutionMap
    /\ \E c \in DOMAIN substitutionMap : c # last.cipher

\* a map is a total bijection of the set onto itself without a fixed point
DerangementOf(map, set) ==
    /\ DOMAIN map = set
    /\ Range(map) = set
    /\ Injective(map)
    /\ \A c \in DOMAIN map : map[c] # c

\* C4: the key map generateRandomKey returns is a total bijection over the
\* ALPHABET of xenocrypt.js (every symbol once as a key, once as a value) and
\* has no fixed point
C4_KeyIsDerangementOfAlphabet ==
    correctKey # EmptyMap => DerangementOf(correctKey, AlphabetSetJS)

\* C5, as claimed: the originalMapping generateCipher builds is a permutation
\* of the alphabet without a fixed point, whatever the shuffles gave
C5_NeverSelfMapping ==
    pc = "done" => DerangementOf(cipherResult.originalMapping, AlphabetSet)

\* C5, amended: the originalMapping generateCipher builds is a permutation of
\* the alphabet, and it has no fixed point whenever the loop ended within the
\* retry budget (attempts <= 100); the shuffle drawn by the attempt that
\* exhausts the budget is taken as it is
C5_DerangementWithinBudget ==
    pc = "done" =>
        /\ DOMAIN cipherResult.originalMapping = AlphabetSet
        /\ Range(cipherResult.originalMapping) = AlphabetSet
        /\ Injective(cipherResult.originalMapping)
        /\ attempts <= RetryBudget =>
              \A c \in AlphabetSet : cipherResult.originalMapping[c] # c

\* the loop has shuffled again at least once and ended within the budget
C5_Witness ==
    /\ pc = "done"
    /\ attempts > 0
    /\ attempts <= RetryBudget
    /\ cipherResult # NoPuzzle

\* the ciphertext read back through the key (cipher letter to plain letter),
\* every character outside the alphabet copied
DecryptWithKey(ciphertext, key, alphabet) ==
    [i \in 1..Len(ciphertext) |->
        IF ciphertext[i] \in alphabet
        THEN (IF ciphertext[i] \in DOMAIN key THEN key[ciphertext[i]]
              ELSE "undefined")
        ELSE ciphertext[i]]

\* C6: round trip in xenocrypt.js: the ciphertext of the puzzle, mapped
\* through the generated key, is the upper-cased plaintext at every position
C6_RoundTripJS ==
    currentCiphertext # <<>> =>
        DecryptWithKey(currentCiphertext, correctKey, AlphabetSetJS)
            = currentPlaintext

\* the plain letters originalMapping sends to the cipher letter c
PlainOf(originalMapping, c) ==
    {plain \in DOMAIN originalMapping : originalMapping[plain] = c}

\* C7: round trip in the React variant, for every quote and every key
\* generateCipher can produce: the ciphertext is as long as truePlaintext,
\* a character outside A..Z stands unchanged at its position, and the inverse
\* of originalMapping takes every letter of the ciphertext back to the letter
\* of truePlaintext at that position
C7_RoundTripReact ==
    pc = "done" =>
        /\ Len(cipherResult.ciphertext) = Len(cipherResult.truePlaintext)
        /\ \A i \in 1..Len(cipherResult.truePlaintext) :
              IF cipherResult.truePlaintext[i] \in AlphabetSet
              THEN PlainOf(cipherResult.originalMapping,
                           cipherResult.ciphertext[i])
                       = {cipherResult.truePlaintext[i]}
              ELSE cipherResult.ciphertext[i] = cipherResult.truePlaintext[i]

\* a quote with a character outside A..Z was encrypted with a key that was
\* accepted, self-mapping and all, after the retry budget was spent
C7_Witness ==
    /\ pc = "done"
    /\ attempts > RetryBudget
    /\ HasSelfMapping(shuffledAlphabet)
    /\ \E i \in 1..Len(cipherResult.truePlaintext) :
          cipherResult.truePlaintext[i] \notin AlphabetSet

\* the guesses give the true letter at every substitutable position
ReconstructsReact(pd, subs) ==
    \A i \in 1..Len(pd.ciphertext) :
        pd.ciphertext[i] \in AlphabetSet =>
            /\ pd.ciphertext[i] \in DOMAIN subs
            /\ subs[pd.ciphertext[i]] = pd.truePlaintext[i]

\* C8: in the React variant isSolved is true if and only if the plaintext
\* reconstructed from the substitutions equals the true plaintext on the
\* substitutable positions
C8_IsSolvedIffReconstructed ==
    puzzleData # NoPuzzle =>
        (isSolved <=> ReconstructsReact(puzzleData, substitutions))

\* C9: in xenocrypt.js, after giveUp on a built puzzle, the comparison of
\* checkSolution holds for the revealed mapping
C9_RevealSolves ==
    (last.op = "giveUp" /\ currentCiphertext # <<>>) =>
        cleanDecrypted(currentCiphertext, substitutionMap)
            = cleanPlaintext(currentPlaintext)

\* some substitutable position of the ciphertext has no guess
SomePositionUnmapped ==
    \E i \in 1..Len(currentCiphertext) :
        /\ currentCiphertext[i] \in AlphabetSetJS
        /\ currentCiphertext[i] \notin DOMAIN substitutionMap

\* C10: checkSolution never finds the puzzle solved while a substitutable
\* position of currentCiphertext has no entry in substitutionMap
C10_UnmappedNeverSolved ==
    SomePositionUnmapped =>
        ~SolvedJS(currentCiphertext, substitutionMap, currentPlaintext)

---------------------------------------------------------------------------
(* Frequency analysis *)

RECURSIVE SumOfCounts(_)
SumOfCounts(entries) ==
    IF entries = <<>> THEN 0
    ELSE Head(entries).count + SumOfCounts(Tail(entries))

RECURSIVE SumOfMap(_)
SumOfMap(counts) ==
    IF DOMAIN counts = {} THEN 0
    ELSE LET c == CHOOSE x \in DOMAIN counts : TRUE
         IN counts[c] + SumOfMap([x \in (DOMAIN counts) \ {c} |-> counts[x]])

\* the number of characters of text that are in the alphabet
AlphabetChars(text, alphabet) ==
    Cardinality({i \in 1..Len(text) : text[i] \in alphabet})

\* C11: the counts of the frequency analysis add up to the number of
\* characters of the ciphertext that are in the substitution alphabet, and no
\* character outside the alphabet has a count -- for the list getFrequency
\* returns in the React component and for the frequencyMap calculateFrequency
\* leaves in xenocrypt.js.
C11_CountsSumToAlphabetChars ==
    /\ program = "XenocryptPractice" =>
          /\ SumOfCounts(frequency)
                = AlphabetChars(puzzleData.ciphertext, AlphabetSet)
          /\ \A k \in 1..Len(frequency) : frequency[k].letter \in AlphabetSet
    /\ program = "xenocrypt.js" =>
          /\ SumOfMap(frequencyMap)
                = AlphabetChars(currentCiphertext, AlphabetSetJS)
          /\ DOMAIN frequencyMap \subseteq AlphabetSetJS

\* a puzzle whose ciphertext holds letters of the alphabet next to characters
\* outside it has been analysed
C11_Witness ==
    /\ program = "XenocryptPractice"
    /\ frequency # <<>>
    /\ \E i \in 1..Len(puzzleData.ciphertext) :
          puzzleData.ciphertext[i] \notin AlphabetSet
    /\ Len(puzzleData.ciphertext) > SumOfCounts(frequency)

\* the place of a letter in the alphabet
LetterOrder(letter) == CHOOSE i \in 1..Len(ALPHABET) : ALPHABET[i] = letter

DescendingByCount(entries) ==
    \A k \in 1..(Len(entries) - 1) : entries[k].count >= entries[k + 1].count

\* C12: the list getFrequency returns is sorted by count, descending, and
\* entries with equal counts stand in the alphabetical order of their letters,
\* whatever the order in which the letters first occur in the ciphertext.
C12_SortedByCountThenLetter ==
    program = "XenocryptPractice" =>
        /\ DescendingByCount(frequency)
        /\ \A k \in 1..(Len(frequency) - 1) :
              frequency[k].count = frequency[k + 1].count =>
                  LetterOrder(frequency[k].letter)
                      < LetterOrder(frequency[k + 1].letter)

\* the part of C12 that is about the counts alone
C12_DescendingOnly == program = "XenocryptPractice" => DescendingByCount(frequency)

---------------------------------------------------------------------------
(* Errors and protocol *)

\* C13: in xenocrypt.js, generateNewPuzzle invoked while loadedPuzzles is
\* empty reports the failure (the message area says the puzzles are not
\* loaded) and leaves currentCiphertext, currentPlaintext, correctKey,
\* substitutionMap and frequencyMap unchanged.
C13_EmptySourceLeavesState ==
    [][(/\ program = "xenocrypt.js"
        /\ last'.op = "generateNewPuzzle"
        /\ Len(loadedPuzzles) = 0)
        => /\ messageArea' = "Puzzles not loaded"
           /\ UNCHANGED <<currentCiphertext, currentPlaintext, correctKey,
                          substitutionMap, frequencyMap>>]_vars

\* generateNewPuzzle has run on an empty list of quotes
C13_Witness ==
    /\ program = "xenocrypt.js"
    /\ last.op = "generateNewPuzzle"
    /\ Len(loadedPuzzles) = 0
    /\ messageArea = "Puzzles not loaded"

\* C14: in the React variant, handleSubstitution(plainLetter) invoked while no
\* cipher letter is selected changes nothing: substitutions, selectedLetter,
\* puzzleData and isSolved keep their values, for every plainLetter.
C14_AssignWithoutSelectionIsNoOp ==
    [][(/\ program = "XenocryptPractice"
        /\ last'.op = "handleSubstitution"
        /\ selectedLetter = Null)
        => UNCHANGED <<substitutions, selectedLetter, puzzleData, isSolved>>]_vars

\* handleSubstitution has run without a selection on a map that holds guesses
C14_Witness ==
    /\ program = "XenocryptPractice"
    /\ last.op = "handleSubstitution"
    /\ last.cipher = Null
    /\ selectedLetter = Null
    /\ substitutions # EmptyMap

\* C15: select, assign, deselect in the React variant. A handleSubstitution
\* that records a mapping leaves selectedLetter at none; the mapping is
\* changed by handleSubstitution only while a letter is selected; the
\* selection leaves none only by handleCipherLetterClick. Hence two
\* assignments that change the mapping are separated by a click (of two
\* successive handleSubstitution calls the second changes nothing) and a
\* selection yields at most one assignment.
C15_SelectAssignDeselect ==
    [][program = "XenocryptPractice" =>
        /\ (last'.op = "handleSubstitution" /\ selectedLetter # Null)
              => selectedLetter' = Null
        /\ (last'.op = "handleSubstitution" /\ substitutions' # substitutions)
              => (selectedLetter # Null /\ selectedLetter' = Null)
        /\ (selectedLetter = Null /\ selectedLetter' # Null)
              => last'.op = "handleCipherLetterClick"
        /\ (last.op = "handleSubstitution" /\ last'.op = "handleSubstitution")
              => substitutions' = substitutions]_vars

\* a second assignment has been recorded, one selection and one
\* handleSubstitution after the first, and the selection is none again
C15_Witness ==
    /\ program = "XenocryptPractice"
    /\ last.op = "handleSubstitution"
    /\ last.cipher # Null
    /\ selectedLetter = Null
    /\ Cardinality(DOMAIN substitutions) >= 2

\* C16: in the React variant, handleCipherLetterClick(L) selects L when L is
\* not the selected letter and clears the selection when it is, so that a
\* second click on the same letter right after the first restores the
\* selection none; it never changes the substitutions.
C16_ClickTogglesSelectionOnly ==
    [][(program = "XenocryptPractice" /\ last'.op = "handleCipherLetterClick")
        => /\ substitutions' = substitutions
           /\ selectedLetter' = IF selectedLetter = last'.cipher THEN Null
                                ELSE last'.cipher
           /\ (/\ last.op = "handleCipherLetterClick"
               /\ last.cipher = last'.cipher
               /\ selectedLetter = last.cipher)
                 => selectedLetter' = Null]_vars

\* a click has cleared the selection while the map held guesses
C16_Witness ==
    /\ program = "XenocryptPractice"
    /\ last.op = "handleCipherLetterClick"
    /\ selectedLetter = Null
    /\ substitutions # EmptyMap

\* C17: right after a generateNewPuzzle that builds a puzzle the guess mapping
\* is empty, whatever guesses, reveal or solved state came before:
\* substitutionMap = {} in xenocrypt.js; substitutions = {}, no selected
\* letter and isSolved = false in the React variant.
C17_NewPuzzleStartsEmpty ==
    /\ (program = "xenocrypt.js"
        /\ last.op \in {"generateNewPuzzle", "DOMContentLoaded"}
        /\ Len(loadedPuzzles) > 0)
          => substitutionMap = EmptyMap
    /\ (program = "XenocryptPractice" /\ last.op = "generateNewPuzzle")
          => /\ substitutions = EmptyMap
             /\ selectedLetter = Null
             /\ isSolved = FALSE

\* a puzzle has been built over a guess mapping that held entries
C17_Witness ==
    /\ program = "xenocrypt.js"
    /\ last.op = "generateNewPuzzle"
    /\ last.hadGuesses
    /\ currentCiphertext # <<>>
    /\ substitutionMap = EmptyMap

\* the same in the React variant
C17_WitnessReact ==
    /\ program = "XenocryptPractice"
    /\ last.op = "generateNewPuzzle"
    /\ last.hadGuesses
    /\ ~isSolved

---------------------------------------------------------------------------
(* The repair loop of generateRandomKey *)

FixedPoints(target) ==
    {i \in 1..Len(ALPHABET_JS) : ALPHABET_JS[i] = target[i]}

IsPermutationOfAlphabet(target) ==
    /\ Len(target) = Len(ALPHABET_JS)
    /\ \A c \in AlphabetSetJS :
          Cardinality({i \in 1..Len(target) : target[i] = c}) = 1

\* the loop taken step by step ends with the key and the ciphertext that
\* generateRandomKey and encryptMessage give for the same random sort
StepwiseAgrees ==
    keyPc = "done" =>
        /\ correctKey = generateRandomKey(sortedTarget)
        /\ currentCiphertext = encryptMessage(pickedQuote, correctKey)

\* C18: the repair loop of generateRandomKey terminates for every initial
\* permutation of the alphabet; a swap creates no fixed point and leaves
\* strictly fewer of them; and the loop ends with plainTarget a permutation of
\* the alphabet that differs from cipherSource at every index.
C18_RepairTerminatesInDerangement ==
    /\ [][plainTarget' # plainTarget =>
            /\ FixedPoints(plainTarget') \subseteq FixedPoints(plainTarget)
            /\ Cardinality(FixedPoints(plainTarget'))
                 < Cardinality(FixedPoints(plainTarget))]_vars
    /\ [](keyPc # "scan" =>
            /\ IsPermutationOfAlphabet(plainTarget)
            /\ FixedPoints(plainTarget) = {})
    /\ <>(keyPc # "scan")

\* the loop has ended for a random sort whose only fixed point was the last
\* index, the one whose successor wraps around to the first
C18_Witness ==
    /\ keyPc = "done"
    /\ FixedPoints(sortedTarget) = {Len(ALPHABET_JS)}
    /\ plainTarget # sortedTarget
    /\ FixedPoints(plainTarget) = {}

---------------------------------------------------------------------------
(* Solvability *)

\* the guess mappings handlePlainTextInput can build on the rendered grid:
\* injective maps from cipher letters with an input box to units of the
\* alphabet
GuessMaps(ciphertext) ==
    LET boxes == Range(ciphertext) \cap AlphabetSetJS
    IN UNION {{map \in [D -> AlphabetSetJS] : Injective(map)} :
                 D \in SUBSET boxes}

\* C19: every puzzle generateNewPuzzle builds in xenocrypt.js can be solved:
\* some injective guess mapping that handlePlainTextInput can build makes the
\* comparison of checkSolution, cleanDecrypted === cleanPlaintext, hold.
C19_EveryPuzzleSolvable ==
    (program = "xenocrypt.js" /\ currentCiphertext # <<>>) =>
        \E map \in GuessMaps(currentCiphertext) :
            cleanDecrypted(currentCiphertext, map)
                = cleanPlaintext(currentPlaintext)

====
